---- MODULE Spec2Model ----
(***************************************************************************)
(* exifgeo: reverse geocoder for Exif location data.                       *)
(*                                                                         *)
(* The model covers the municipality-code cache (src/src/municd.rs), the   *)
(* reverse geocoder (src/src/reverse_geocoder.rs), the Exif coordinate     *)
(* conversion (src/src/gps_info.rs) and the driver (src/src/main.rs).      *)
(*                                                                         *)
(* Text is held as a sequence of character tokens (Str).  A token stands   *)
(* for one character, or for a run of characters none of which is a digit, *)
(* a comma, a quote or U+3000.  A usize is held as an integer; the decimal *)
(* text of a usize is converted digit by digit, and the 64-bit range check *)
(* is done on the digits.                                                  *)
(***************************************************************************)
EXTENDS Integers, Sequences, FiniteSets, TLC

\* ---------------------------------------------------------------- bounds
\* longest municipality source (in lines) a fetch delivers in SpecLoad
MaxLines == 2
\* number of program runs against the same cache file in SpecLoad
MaxRuns == 2
\* most target files on the command line in Spec
MaxFiles == 2

\* ------------------------------------------------------ program constants
EXPIRE_DAYS == 10

\* Duration::from_secs(86400 * EXPIRE_DAYS)
ExpireSecs == 86400 * EXPIRE_DAYS

\* ------------------------------------------------------------------ text
AsciiDigits == <<"0", "1", "2", "3", "4", "5", "6", "7", "8", "9">>

\* U+0663 ARABIC-INDIC DIGIT THREE: a decimal digit for the regex class \d
\* (Unicode-aware), not a digit for str::parse::<usize>.
ArabicThree == "U+0663"

\* U+3000 IDEOGRAPHIC SPACE
FullWidthSpace == "U+3000"

IsAsciiDigit(c) == \E i \in 1..10 : AsciiDigits[i] = c

\* the regex class \d
IsDigitClass(c) == IsAsciiDigit(c) \/ c = ArabicThree

DigitValue(c) == (CHOOSE i \in 1..10 : AsciiDigits[i] = c) - 1

\* decimal text of a non-negative integer, as format!("{}", n) writes it
RECURSIVE ToDecimal(_)
ToDecimal(n) ==
    IF n < 10 THEN <<AsciiDigits[n + 1]>>
    ELSE Append(ToDecimal(n \div 10), AsciiDigits[(n % 10) + 1])

\* s.repeat: n copies of the character c
RECURSIVE Repeat(_, _)
Repeat(c, n) == IF n <= 0 THEN <<>> ELSE <<c>> \o Repeat(c, n - 1)

\* PadLeft as a fixed-width field would be: longer text loses its first
\* characters
PadLeftMutant(s, width) ==
    IF Len(s) >= width THEN SubSeq(s, Len(s) - width + 1, Len(s))
    ELSE Repeat("0", width - Len(s)) \o s

\* format!("{:0>6}", s) and format!("{:06}", n): the width is a minimum, text
\* of six characters or more is written unchanged
PadLeft(s, width) ==
    IF Len(s) >= width THEN s ELSE Repeat("0", width - Len(s)) \o s

\* u64::MAX = 18446744073709551615, the largest usize of a 64-bit target
UsizeMaxDigits ==
    <<"1", "8", "4", "4", "6", "7", "4", "4", "0", "7",
      "3", "7", "0", "9", "5", "5", "1", "6", "1", "5">>

RECURSIVE StripZeros(_)
StripZeros(s) ==
    IF Len(s) > 1 /\ Head(s) = "0" THEN StripZeros(Tail(s)) ELSE s

\* lexicographic a > b for digit texts of equal length
RECURSIVE DigitsGreater(_, _)
DigitsGreater(a, b) ==
    IF a = <<>> THEN FALSE
    ELSE IF Head(a) # Head(b) THEN DigitValue(Head(a)) > DigitValue(Head(b))
    ELSE DigitsGreater(Tail(a), Tail(b))

RECURSIVE DecimalValue(_)
DecimalValue(s) ==
    IF s = <<>> THEN 0
    ELSE DecimalValue(SubSeq(s, 1, Len(s) - 1)) * 10 + DigitValue(s[Len(s)])

\* ParseUsize without the range check: a value above usize::MAX is read as 0
ParseUsizeMutant(s) ==
    IF s = <<>> \/ \E i \in 1..Len(s) : ~IsAsciiDigit(s[i])
    THEN [ok |-> FALSE, val |-> 0]
    ELSE LET t == StripZeros(s)
         IN  IF Len(t) > Len(UsizeMaxDigits)
             THEN [ok |-> TRUE, val |-> 0]
             ELSE IF Len(t) = Len(UsizeMaxDigits) /\ DigitsGreater(t, UsizeMaxDigits)
             THEN [ok |-> TRUE, val |-> 0]
             ELSE [ok |-> TRUE, val |-> DecimalValue(t)]

\* str::parse::<usize>: Err for an empty text, a character that is no ASCII
\* digit, or a value above usize::MAX (64-bit target)
ParseUsize(s) ==
    IF s = <<>> \/ \E i \in 1..Len(s) : ~IsAsciiDigit(s[i])
    THEN [ok |-> FALSE, val |-> 0]
    ELSE LET t == StripZeros(s)
         IN  IF Len(t) > Len(UsizeMaxDigits)
             THEN [ok |-> FALSE, val |-> 0]
             ELSE IF Len(t) = Len(UsizeMaxDigits) /\ DigitsGreater(t, UsizeMaxDigits)
             THEN [ok |-> FALSE, val |-> 0]
             ELSE [ok |-> TRUE, val |-> DecimalValue(t)]

\* str::replace('\u{3000}', "")
RECURSIVE RemoveFullWidthSpace(_)
RemoveFullWidthSpace(s) ==
    IF s = <<>> THEN <<>>
    ELSE IF Head(s) = FullWidthSpace THEN RemoveFullWidthSpace(Tail(s))
    ELSE <<Head(s)>> \o RemoveFullWidthSpace(Tail(s))

\* ------------------------------------------------------- municd records
\* MuniCdRecord::new
MuniCdRecord(code, pref, town) == [code |-> code, pref |-> pref, town |-> town]

\* RecordToString with the U+3000 left in
RecordToStringMutant(rec) == rec.pref \o rec.town

\* impl ToString for MuniCdRecord

RecordToString(rec) == rec.pref \o RemoveFullWidthSpace(rec.town)

EmptyMap == [k \in {} |-> 0]

\* HashMap::insert: an entry under the same key is replaced
MapInsert(m, key, rec) ==
    [k \in DOMAIN m \cup {key} |-> IF k = key THEN rec ELSE m[k]]

\* ------------------------------------------------- municipality source
\* A line of the text fetched from MUNICD_URL, cut the way RECORD_RE reads it:
\*   prefix - the line holds  GSI.MUNI_ARRAY["<digits>"] = '<digits>,
\*   fields - the comma-separated texts that follow the prefix, up to the
\*            last quote of the line
\*   quote  - a closing quote follows the fields
SourceLine(prefix, fields, quote) ==
    [prefix |-> prefix, fields |-> fields, quote |-> quote]

\* fields[i..j] with the commas between them
RECURSIVE JoinFields(_, _, _)
JoinFields(fields, i, j) ==
    IF i > j THEN <<>>
    ELSE IF i = j THEN fields[i]
    ELSE fields[i] \o <<",">> \o JoinFields(fields, i + 1, j)

IsDigitField(f) == f # <<>> /\ \A i \in 1..Len(f) : IsDigitClass(f[i])

\* The positions the group (\d+) can take: a field of digits only, with a
\* non-empty (.+) before it and a non-empty (.+) after it.
CodePositions(line) ==
    {i \in 2..(Len(line.fields) - 1) :
        /\ IsDigitField(line.fields[i])
        /\ JoinFields(line.fields, 1, i - 1) # <<>>
        /\ JoinFields(line.fields, i + 1, Len(line.fields)) # <<>>}

\* Regex::captures with RECORD_RE: the first (.+) is greedy, so the code is the
\* last field that can be one.
NoCaptures == [matched |-> FALSE, g1 |-> <<>>, g2 |-> <<>>, g3 |-> <<>>]

Captures(line) ==
    IF ~line.prefix \/ ~line.quote \/ CodePositions(line) = {}
    THEN NoCaptures
    ELSE LET i == CHOOSE p \in CodePositions(line) :
                      \A q \in CodePositions(line) : q <= p
         IN  [matched |-> TRUE,
              g1 |-> JoinFields(line.fields, 1, i - 1),
              g2 |-> line.fields[i],
              g3 |-> JoinFields(line.fields, i + 1, Len(line.fields))]

\* The loop of download over the lines of the fetched text: a line without
\* captures is passed over, a code that does not parse ends the download with
\* the parse error, every other line is inserted under format!("{:06}", code).
RECURSIVE ParseLines(_, _)
ParseLines(lines, ret) ==
    IF lines = <<>> THEN [ok |-> TRUE, map |-> ret]
    ELSE LET captures == Captures(Head(lines))
         IN  IF ~captures.matched THEN ParseLines(Tail(lines), ret)
             ELSE LET pref == captures.g1
                      code == ParseUsize(captures.g2)
                      town == captures.g3
                  IN  IF ~code.ok THEN [ok |-> FALSE, map |-> EmptyMap]
                      ELSE ParseLines(Tail(lines),
                               MapInsert(ret, PadLeft(ToDecimal(code.val), 6),
                                         MuniCdRecord(code.val, pref, town)))

\* ------------------------------------------------------- cache document
\* The text of the cache file: a JSON object whose members are
\*   "<key>": {"code": <number>, "pref": "<text>", "town": "<text>"}
\* (kind "object", the number held as its text), or text that is no JSON
\* (kind "garbage"), or an empty or cut-off file (kind "partial").
JsonMember(key, code, pref, town) ==
    [key |-> key, code |-> code, pref |-> pref, town |-> town]

JsonObject(members) == [kind |-> "object", members |-> members]

NotJson(kind) == [kind |-> kind, members |-> <<>>]

\* serde_json::to_string(&ret): one member per entry.  The order of a HashMap
\* is unspecified; the keys are distinct, so the order does not show in what
\* is read back.
RECURSIVE MembersOf(_, _)
MembersOf(m, keys) ==
    IF keys = {} THEN <<>>
    ELSE LET k == CHOOSE x \in keys : TRUE
         IN  <<JsonMember(k, ToDecimal(m[k].code), m[k].pref, m[k].town)>>
                 \o MembersOf(m, keys \ {k})

\* Serialize writing the prefecture name into "town" as well
SerializeMutant(m) ==
    JsonObject([i \in 1..Len(MembersOf(m, DOMAIN m)) |->
        [MembersOf(m, DOMAIN m)[i] EXCEPT !.town = MembersOf(m, DOMAIN m)[i].pref]])

\* serde_json::to_string(&ret)
Serialize(m) == JsonObject(MembersOf(m, DOMAIN m))

\* A JSON number has no leading zero; a usize field takes a number in range.
ReadNumber(text) ==
    IF Len(text) > 1 /\ Head(text) = "0" THEN [ok |-> FALSE, val |-> 0]
    ELSE ParseUsize(text)

\* serde_json::from_reader::<HashMap<String, MuniCdRecord>>: of two members
\* with one key the later one stays.
RECURSIVE ReadMembers(_, _)
ReadMembers(members, map) ==
    IF members = <<>> THEN [ok |-> TRUE, map |-> map]
    ELSE LET m == Head(members)
             code == ReadNumber(m.code)
         IN  IF ~code.ok THEN [ok |-> FALSE, map |-> EmptyMap]
             ELSE ReadMembers(Tail(members),
                      MapInsert(map, m.key, MuniCdRecord(code.val, m.pref, m.town)))

Deserialize(doc) ==
    IF doc.kind # "object" THEN [ok |-> FALSE, map |-> EmptyMap]
    ELSE ReadMembers(doc.members, EmptyMap)

\* ---------------------------------------------------------------- state
VARIABLES
    now,         \* SystemTime::now(), in seconds
    cacheFile,   \* the file at cache_path
    dirExists,   \* whether the parent directory of cache_path exists
    prior,       \* cacheFile as it was when the run began
    payload,     \* the lines of the text the run fetched from MUNICD_URL
    loadResult,  \* what municd::load returned in this run
    fetches,     \* GET requests to MUNICD_URL in this run
    writes,      \* std::fs::write calls on cache_path in this run
    loads,       \* calls of municd::load in this run
    persisted,   \* the map the last complete std::fs::write serialized
    runs,        \* runs of the program begun so far
    pc,          \* where main is: "load", "files", "exit0", "exit1", "panic"
    coder,       \* the ReverseGeocoder of run: its municd map, once built
    nFiles,      \* opts.target_files().len()
    idx,         \* the position in target_files of the file run is at
    reports,     \* what run printed: one entry per reported file
    fileReads,   \* calls of gps_info::read in this run
    requests,    \* GET requests to REVERSE_GEOCODE_URL, per target file
    last         \* the last loop iteration: its file, conversions and query

vars ==
    <<now, cacheFile, dirExists, prior, payload, loadResult, fetches, writes,
      loads, persisted, runs, pc, coder, nFiles, idx, reports, fileReads,
      requests, last>>

runVars == <<nFiles, idx, reports, fileReads, requests, last>>

\* ------------------------------------------------------- the cache file
\*   exists  - Path::exists
\*   metaOk  - Path::metadata returns Ok
\*   mtimeOk - Metadata::modified returns Ok
\*   mtime   - the modification time, in seconds
\*   canOpen - File::open returns Ok
\*   doc     - the text of the file
CacheFile(exists, metaOk, mtimeOk, mtime, canOpen, doc) ==
    [exists |-> exists, metaOk |-> metaOk, mtimeOk |-> mtimeOk,
     mtime |-> mtime, canOpen |-> canOpen, doc |-> doc]

NoFile == CacheFile(FALSE, FALSE, FALSE, 0, FALSE, NotJson("partial"))

\* is_available with <= for <: a file of exactly 10 days passes
is_availableMutant(file, t) ==
    IF ~file.exists THEN FALSE
    ELSE IF ~file.metaOk THEN FALSE
    ELSE IF ~file.mtimeOk THEN FALSE
    ELSE IF t >= file.mtime THEN t - file.mtime <= ExpireSecs
    ELSE FALSE

\* is_available
is_available(file, t) ==
    IF ~file.exists THEN FALSE
    ELSE IF ~file.metaOk THEN FALSE
    ELSE IF ~file.mtimeOk THEN FALSE
    ELSE IF t >= file.mtime THEN t - file.mtime < ExpireSecs
    ELSE FALSE

Ok(map) == [kind |-> "Ok", map |-> map, err |-> ""]
Err(err) == [kind |-> "Err", map |-> EmptyMap, err |-> err]
NotCalled == [kind |-> "none", map |-> EmptyMap, err |-> ""]

\* load_from_cache
load_from_cache(file, t) ==
    IF ~is_available(file, t) THEN Err("cache file is expired.")
    ELSE IF ~file.canOpen THEN Err("open cache file failed")
    ELSE LET read == Deserialize(file.doc)
         IN  IF read.ok THEN Ok(read.map) ELSE Err("parse JSON failed")

\* What the network and the file system do to one download:
\*   get   - reqwest::blocking::get(MUNICD_URL) returns Ok
\*   text  - Response::text returns Ok
\*   lines - the lines of the text
\*   mkdir - std::fs::create_dir_all returns Ok
\*   write - std::fs::write: "ok"; "create" (the file could not be created or
\*           truncated and is as before); "partial" (the file was truncated and
\*           none or only part of the text was written)
WriteOutcomes == {"ok", "create", "partial"}

DownloadInput(get, text, lines, mkdir, write) ==
    [get |-> get, text |-> text, lines |-> lines, mkdir |-> mkdir, write |-> write]

Written(file, t, doc) ==
    CacheFile(TRUE, IF file.exists THEN file.metaOk ELSE TRUE, file.mtimeOk \/ ~file.exists,
              t, IF file.exists THEN file.canOpen ELSE TRUE, doc)

\* what download and load give: the result, the file and the directory they
\* leave, the lines fetched, the numbers of fetches and of writes
Downloaded(result, file, dir, lines, fetched, wrote) ==
    [result |-> result, file |-> file, dir |-> dir, lines |-> lines,
     fetched |-> fetched, wrote |-> wrote]

\* download opening the cache file for writing before it parses the text: a
\* parse error leaves the file truncated
downloadMutant(file, dir, t, in) ==
    IF ~in.get THEN Downloaded(Err("get"), file, dir, <<>>, 1, 0)
    ELSE IF ~in.text THEN Downloaded(Err("text"), file, dir, <<>>, 1, 0)
    ELSE LET parsed == ParseLines(in.lines, EmptyMap)
         IN  IF ~parsed.ok
             THEN Downloaded(Err("parse"), Written(file, t, NotJson("partial")), TRUE,
                             in.lines, 1, 1)
             ELSE IF ~dir /\ ~in.mkdir
             THEN Downloaded(Err("create_dir_all"), file, dir, in.lines, 1, 0)
             ELSE IF in.write = "ok"
             THEN Downloaded(Ok(parsed.map), Written(file, t, Serialize(parsed.map)),
                             TRUE, in.lines, 1, 1)
             ELSE IF in.write = "create"
             THEN Downloaded(Err("write"), file, TRUE, in.lines, 1, 1)
             ELSE Downloaded(Err("write"), Written(file, t, NotJson(in.write)), TRUE,
                             in.lines, 1, 1)

\* download
download(file, dir, t, in) ==
    IF ~in.get THEN Downloaded(Err("get"), file, dir, <<>>, 1, 0)
    ELSE IF ~in.text THEN Downloaded(Err("text"), file, dir, <<>>, 1, 0)
    ELSE LET parsed == ParseLines(in.lines, EmptyMap)
         IN  IF ~parsed.ok THEN Downloaded(Err("parse"), file, dir, in.lines, 1, 0)
             ELSE IF ~dir /\ ~in.mkdir
             THEN Downloaded(Err("create_dir_all"), file, dir, in.lines, 1, 0)
             ELSE IF in.write = "ok"
             THEN Downloaded(Ok(parsed.map), Written(file, t, Serialize(parsed.map)),
                             TRUE, in.lines, 1, 1)
             ELSE IF in.write = "create"
             THEN Downloaded(Err("write"), file, TRUE, in.lines, 1, 1)
             ELSE Downloaded(Err("write"), Written(file, t, NotJson(in.write)), TRUE,
                             in.lines, 1, 1)

\* load: the cache file when load_from_cache returns Ok, download otherwise
load(file, dir, t, in) ==
    LET cached == load_from_cache(file, t)
    IN  IF cached.kind = "Ok" THEN Downloaded(cached, file, dir, <<>>, 0, 0)
        ELSE download(file, dir, t, in)

\* ------------------------------------------------------------ gps_info
\* exif::Rational
Rational(num, denom) == [num |-> num, denom |-> denom]

\* An Exif field: whether get_field finds it, the variant of exif::Value it
\* holds, the fractions of a Value::Rational, the text display_value writes.
Field(present, type, fractions, text) ==
    [present |-> present, type |-> type, fractions |-> fractions, text |-> text]

Absent == Field(FALSE, "None", <<>>, "")
RationalField(fractions) == Field(TRUE, "Rational", fractions, "")
AsciiField(text) == Field(TRUE, "Ascii", <<>>, text)

\* A target file: whether File::open and read_from_container return Ok, the
\* four GPS fields, and whether the file name is valid UTF-8.
TargetFile(open, exif, lat, latRef, lng, lngRef, utf8) ==
    [open |-> open, exif |-> exif, lat |-> lat, latRef |-> latRef,
     lng |-> lng, lngRef |-> lngRef, utf8 |-> utf8]

\* An f64 in decimal degrees: the sign bit and the magnitude, held exactly as
\* num / den. den = 0 stands for the values that are no number of degrees:
\* an infinity (num = 1) and NaN (num = 0). Rounding to 53 bits is left out.
Degrees(neg, num, den) == [neg |-> neg, num |-> num, den |-> den]

NoDegrees == Degrees(FALSE, 0, 1)
Infinity(neg) == Degrees(neg, 1, 0)
NaN == Degrees(FALSE, 0, 0)

Converted(kind, val) == [kind |-> kind, val |-> val]

\* deg + (min / 60.0) + (sec / 3600.0) on three Rational::to_f64 values
\* (num as f64 / denom as f64): n/0 is an infinity, 0/0 is NaN, NaN plus
\* anything is NaN, an infinity plus a number or an infinity is an infinity
SexagesimalSum(deg, min, sec) ==
    LET fractions == <<deg, min, sec>>
    IN  IF \E i \in 1..3 : fractions[i].denom = 0 /\ fractions[i].num = 0
        THEN NaN
        ELSE IF \E i \in 1..3 : fractions[i].denom = 0
        THEN Infinity(FALSE)
        ELSE Degrees(FALSE,
                     deg.num * min.denom * sec.denom * 3600
                       + min.num * deg.denom * sec.denom * 60
                       + sec.num * deg.denom * min.denom,
                     deg.denom * min.denom * sec.denom * 3600)

\* conv_degree with W left out of the test of the reference
conv_degreeMutant(value, reference) ==
    IF value.type = "Rational"
    THEN IF Len(value.fractions) < 3 THEN Converted("Panic", NoDegrees)
         ELSE LET sum == SexagesimalSum(value.fractions[1], value.fractions[2],
                                        value.fractions[3])
              IN  Converted("Ok", [sum EXCEPT !.neg = (reference.text = "S")])
    ELSE Converted("Err", NoDegrees)

\* conv_degree: "Ok" with the value, "Err" (invalid GPS location information),
\* or "Panic" when fractions[0], [1] or [2] is out of bounds. The product
\* with sign (-1.0 or 1.0) sets the sign bit and leaves the magnitude, of a
\* zero and of an infinity too; NaN stays NaN.
conv_degree(value, reference) ==
    IF value.type = "Rational"
    THEN IF Len(value.fractions) < 3 THEN Converted("Panic", NoDegrees)
         ELSE LET sum == SexagesimalSum(value.fractions[1], value.fractions[2],
                                        value.fractions[3])
                  negative == reference.text = "S" \/ reference.text = "W"
              IN  Converted("Ok", IF sum = NaN THEN NaN
                                  ELSE [sum EXCEPT !.neg = negative])
    ELSE Converted("Err", NoDegrees)

\* gps_info::read: kind "Some" (latitude and longitude), "None" (a GPS field
\* is missing), "Err" or "Panic"; convs lists the conv_degree calls made
ReadResult(kind, lat, lng, convs) ==
    [kind |-> kind, lat |-> lat, lng |-> lng, convs |-> convs]

read(file) ==
    IF ~file.open \/ ~file.exif
    THEN ReadResult("Err", NoDegrees, NoDegrees, <<>>)
    ELSE IF ~file.lat.present \/ ~file.latRef.present
            \/ ~file.lng.present \/ ~file.lngRef.present
    THEN ReadResult("None", NoDegrees, NoDegrees, <<>>)
    ELSE LET lat == conv_degree(file.lat, file.latRef)
             lng == conv_degree(file.lng, file.lngRef)
         IN  IF lat.kind # "Ok"
             THEN ReadResult(lat.kind, NoDegrees, NoDegrees, <<lat>>)
             ELSE IF lng.kind # "Ok"
             THEN ReadResult(lng.kind, NoDegrees, NoDegrees, <<lat, lng>>)
             ELSE ReadResult("Some", lat.val, lng.val, <<lat, lng>>)

\* ---------------------------------------------------- reverse_geocoder
\* What the GET to REVERSE_GEOCODE_URL brings:
\*   sent   - reqwest::blocking::get returns Ok (a response arrived)
\*   status - the HTTP status of the response
\*   shape  - "ApiResult" when the body is JSON holding results.muniCd and
\*            results.lv01Nm as strings, "other" when it is not
Response(sent, status, shape, muniCd, lv01Nm) ==
    [sent |-> sent, status |-> status, shape |-> shape,
     muniCd |-> muniCd, lv01Nm |-> lv01Nm]

\* ApiResult::muni_code
muni_code(result) == PadLeft(result.muniCd, 6)

\* ApiResult::area_name
area_name(result) == result.lv01Nm

Answer(kind, text) == [kind |-> kind, text |-> text]

\* ReverseGeocoder::query
query(municd, resp) ==
    IF ~resp.sent THEN Answer("Err", <<>>)
    ELSE IF resp.shape # "ApiResult" THEN Answer("Err", <<>>)
    ELSE IF muni_code(resp) \in DOMAIN municd
    THEN Answer("Ok", RecordToString(municd[muni_code(resp)]) \o area_name(resp))
    ELSE Answer("Ok", <<"????? ">> \o area_name(resp))

\* ----------------------------------------------------------------- main
NoResponse == Response(FALSE, 0, "other", <<>>, <<>>)

\* One pass of the loop of run over `file`: the outcome printed ("success",
\* "no-location", "read failure", "query failure") or "panic", and whether the
\* reverse geocoder was asked.
Iteration(outcome, asked, file, got, resp, answer) ==
    [outcome |-> outcome, asked |-> asked, file |-> file, read |-> got,
     resp |-> resp, answer |-> answer]

iterate(municd, file, resp) ==
    LET got == read(file)
        answer == query(municd, resp)
    IN  IF got.kind = "Panic"
        THEN Iteration("panic", 0, file, got, NoResponse, Answer("none", <<>>))
        ELSE IF got.kind = "None"
        THEN Iteration("no-location", 0, file, got, NoResponse, Answer("none", <<>>))
        ELSE IF got.kind = "Err"
        THEN Iteration("read failure", 0, file, got, NoResponse, Answer("none", <<>>))
        ELSE IF answer.kind = "Err"
        THEN Iteration("query failure", 1, file, got, resp, answer)
        \* query_succeed: file.file_name().unwrap().to_str().unwrap()
        ELSE IF ~file.utf8
        THEN Iteration("panic", 1, file, got, resp, answer)
        ELSE Iteration("success", 1, file, got, resp, answer)

\* ------------------------------------------------------- inputs drawn
\* GSI.MUNI_ARRAY["1"] = '1,Tokyo,13101,Chiyoda City'
LineTokyo ==
    SourceLine(TRUE, <<<<"Tokyo">>, <<"1", "3", "1", "0", "1">>, <<"Chiyoda City">>>>, TRUE)

\* GSI.MUNI_ARRAY["2"] = '2,Tokyo,013101,Chiyoda<U+3000>Ward': the same code again
LineTokyoAgain ==
    SourceLine(TRUE, <<<<"Tokyo">>, <<"0", "1", "3", "1", "0", "1">>,
                       <<"Chiyoda", FullWidthSpace, "Ward">>>>, TRUE)

\* // '7,Nara,29201,Nara': the fields of a record without the prefix
LineNoPrefix ==
    SourceLine(FALSE, <<<<"Nara">>, <<"2", "9", "2", "0", "1">>, <<"Nara">>>>, TRUE)

\* GSI.MUNI_ARRAY["3"] = '3,Nara,29x,Ikoma': no field of digits only
LineNoCode ==
    SourceLine(TRUE, <<<<"Nara">>, <<"2", "9", "x">>, <<"Ikoma">>>>, TRUE)

\* GSI.MUNI_ARRAY["4"] = '4,Osaka,1234567,Naniwa': a code of seven digits
LineWide ==
    SourceLine(TRUE, <<<<"Osaka">>, <<"1", "2", "3", "4", "5", "6", "7">>, <<"Naniwa">>>>,
               TRUE)

\* GSI.MUNI_ARRAY["5"] = '5,Kyoto,18446744073709551616,Fushimi': usize::MAX + 1
LineOverflow ==
    SourceLine(TRUE, <<<<"Kyoto">>, SubSeq(UsizeMaxDigits, 1, 19) \o <<"6">>, <<"Fushimi">>>>,
               TRUE)

\* GSI.MUNI_ARRAY["6"] = '6,Hokkaido,1100,Sapporo,1101,Chuo': two fields of digits
LineGreedy ==
    SourceLine(TRUE, <<<<"Hokkaido">>, <<"1", "1", "0", "0">>, <<"Sapporo">>,
                       <<"1", "1", "0", "1">>, <<"Chuo">>>>, TRUE)

SourceLines ==
    {LineTokyo, LineTokyoAgain, LineNoPrefix, LineNoCode, LineWide, LineOverflow,
     LineGreedy}

\* the texts of at most n lines
Payloads(n) == UNION {[1..k -> SourceLines] : k \in 0..n}

\* the inputs of a download; create_dir_all is called only when the directory
\* is missing
DownloadInputs(lines, dir) ==
    {DownloadInput(FALSE, FALSE, <<>>, TRUE, "ok"),
     DownloadInput(TRUE, FALSE, <<>>, TRUE, "ok")}
    \cup {DownloadInput(TRUE, TRUE, l, mk, w) :
             l \in lines, mk \in (IF dir THEN {TRUE} ELSE BOOLEAN),
             w \in WriteOutcomes}

Epoch == 2 * ExpireSecs

DocGarbage == NotJson("garbage")

\* the cache file an earlier refresh wrote from LineTokyo
DocTokyo == Serialize(ParseLines(<<LineTokyo>>, EmptyMap).map)

\* a cache file not written by a refresh: keys without padding, one code twice
DocForeign ==
    JsonObject(<<JsonMember(<<"1", "3", "1", "0", "1">>, <<"1", "3", "1", "0", "1">>,
                            <<"Tokyo">>, <<"Chiyoda City">>),
                 JsonMember(<<"x">>, <<"1", "3", "1", "0", "1">>,
                            <<"Tokyo">>, <<"Chiyoda">>)>>)

\* a JSON object of another schema: "code" is no number
DocOtherSchema ==
    JsonObject(<<JsonMember(<<"0", "1", "3", "1", "0", "1">>, <<"x">>,
                            <<"Tokyo">>, <<"Chiyoda City">>)>>)

InitMtimes ==
    {Epoch - ExpireSecs - 1, Epoch - ExpireSecs, Epoch - ExpireSecs + 1, Epoch, Epoch + 1}

InitCacheFiles ==
    {NoFile}
    \cup {CacheFile(TRUE, TRUE, TRUE, t, TRUE, DocTokyo) : t \in InitMtimes}
    \cup {CacheFile(TRUE, TRUE, TRUE, Epoch - 1, TRUE, d) :
             d \in {DocForeign, DocGarbage, DocOtherSchema}}
    \cup {CacheFile(TRUE, FALSE, TRUE, Epoch - 1, TRUE, DocTokyo),
          CacheFile(TRUE, TRUE, FALSE, Epoch - 1, TRUE, DocTokyo),
          CacheFile(TRUE, TRUE, TRUE, Epoch - 1, FALSE, DocTokyo)}

\* the time that passes between two runs
RunGaps == {1, ExpireSecs}

NoMap == [some |-> FALSE, map |-> EmptyMap]

\* the cache files and municipality sources of Spec
RunCacheFiles ==
    {NoFile,
     CacheFile(TRUE, TRUE, TRUE, Epoch - 1, TRUE, DocTokyo),
     CacheFile(TRUE, TRUE, TRUE, Epoch - ExpireSecs, TRUE, DocTokyo),
     CacheFile(TRUE, TRUE, TRUE, Epoch - 1, TRUE, DocForeign),
     CacheFile(TRUE, TRUE, TRUE, Epoch - 1, TRUE, DocGarbage)}

RunPayloads == {<<>>, <<LineTokyoAgain, LineWide>>, <<LineOverflow>>}

\* (35, 0, 0) and (139, 30, 0)
Lat35 == <<Rational(35, 1), Rational(0, 1), Rational(0, 1)>>
Lng139 == <<Rational(139, 1), Rational(30, 1), Rational(0, 1)>>

\* 33 deg 51 min 54 sec and 151 deg 12.5 min 35.5 sec, with denominators
\* other than 1; (0, 0, 0); 35/0 and 0/0 for the degrees
Lat33 == <<Rational(33, 1), Rational(51, 1), Rational(54, 1)>>
Lng151 == <<Rational(302, 2), Rational(25, 2), Rational(355, 10)>>
LatZero == <<Rational(0, 1), Rational(0, 1), Rational(0, 1)>>
LatInfinite == <<Rational(35, 0), Rational(0, 1), Rational(0, 1)>>
LatNaN == <<Rational(0, 0), Rational(0, 1), Rational(0, 1)>>

GpsFile(lat, lng) ==
    TargetFile(TRUE, TRUE, lat, AsciiField("N"), lng, AsciiField("E"), TRUE)

FileGood == GpsFile(RationalField(Lat35), RationalField(Lng139))

TargetFiles ==
    {\* a file that cannot be opened, a file that is no image
     TargetFile(FALSE, FALSE, Absent, Absent, Absent, Absent, TRUE),
     TargetFile(TRUE, FALSE, Absent, Absent, Absent, Absent, TRUE),
     \* one of the four GPS fields is missing
     [FileGood EXCEPT !.lat = Absent],
     [FileGood EXCEPT !.latRef = Absent],
     [FileGood EXCEPT !.lng = Absent],
     [FileGood EXCEPT !.lngRef = Absent],
     \* latitude and longitude as three rationals
     FileGood,
     [FileGood EXCEPT !.utf8 = FALSE],
     \* a rational field of two or of four fractions, a field of another type
     GpsFile(RationalField(SubSeq(Lat35, 1, 2)), RationalField(Lng139)),
     GpsFile(RationalField(Lat35 \o <<Rational(7, 1)>>), RationalField(Lng139)),
     GpsFile(AsciiField("35.0"), RationalField(Lng139)),
     GpsFile(RationalField(Lat35), RationalField(SubSeq(Lng139, 1, 2))),
     GpsFile(RationalField(Lat35), AsciiField("139.5")),
     \* south and west; the reference of the other axis; a reference that is
     \* none of N, S, E, W, which display_value writes in quotation marks
     [GpsFile(RationalField(Lat33), RationalField(Lng151))
        EXCEPT !.latRef = AsciiField("S")],
     [GpsFile(RationalField(Lat33), RationalField(Lng151))
        EXCEPT !.lngRef = AsciiField("W")],
     [GpsFile(RationalField(Lat33), RationalField(Lng151))
        EXCEPT !.latRef = AsciiField("W"), !.lngRef = AsciiField("S")],
     [GpsFile(RationalField(Lat33), RationalField(Lng151))
        EXCEPT !.latRef = AsciiField("\"s\""), !.lngRef = AsciiField("\"West\"")],
     [GpsFile(RationalField(LatZero), RationalField(LatZero))
        EXCEPT !.latRef = AsciiField("S")],
     \* a denominator of 0
     GpsFile(RationalField(LatInfinite), RationalField(Lng139)),
     [GpsFile(RationalField(LatNaN), RationalField(Lng139))
        EXCEPT !.latRef = AsciiField("S")]}

Marunouchi == <<"Marunouchi">>

Responses ==
    {NoResponse,
     Response(TRUE, 200, "ApiResult", <<"1", "3", "1", "0", "1">>, Marunouchi),
     Response(TRUE, 200, "ApiResult", <<"1", "2", "3", "4", "5", "6", "7">>, Marunouchi),
     Response(TRUE, 200, "ApiResult", <<"9", "9", "9", "9", "9">>, Marunouchi),
     Response(TRUE, 200, "ApiResult", <<>>, <<>>),
     Response(TRUE, 200, "other", <<>>, <<>>),
     Response(TRUE, 500, "other", <<>>, <<>>),
     Response(TRUE, 500, "ApiResult", <<"1", "3", "1", "0", "1">>, Marunouchi)}

NoIteration ==
    Iteration("none", 0, FileGood, read(FileGood), NoResponse, Answer("none", <<>>))

NoCoder == [some |-> FALSE, municd |-> EmptyMap]

\* ----------------------------------------------------------------- Init
\* The program starts: a cache file from `files`, `n` target files.
InitWith(files, counts) ==
    /\ now = Epoch
    /\ cacheFile \in files
    /\ dirExists \in (IF cacheFile.exists THEN {TRUE} ELSE BOOLEAN)
    /\ prior = cacheFile
    /\ payload = <<>>
    /\ loadResult = NotCalled
    /\ fetches = 0
    /\ writes = 0
    /\ loads = 0
    /\ persisted = NoMap
    /\ runs = 1
    /\ pc = "load"
    /\ coder = NoCoder
    /\ nFiles \in counts
    /\ idx = 1
    /\ reports = <<>>
    /\ fileReads = 0
    /\ requests = [i \in 1..nFiles |-> 0]
    /\ last = NoIteration

\* ------------------------------------------------------------- the run
\* runStart without the ? on ReverseGeocoder::new: the loop is entered
\* whatever load returned
runMutant(result) ==
    [pc |-> "files",
     coder |-> [some |-> TRUE, municd |-> result.map]]

\* run up to its loop: ReverseGeocoder::new holds the mapping load returned;
\* on Err run returns it and main exits with status 1
runStart(result) ==
    IF result.kind = "Ok"
    THEN [pc |-> "files", coder |-> [some |-> TRUE, municd |-> result.map]]
    ELSE [pc |-> "exit1", coder |-> NoCoder]

\* main up to the loop of run, with the download input `in`
LoadWith(in) ==
    \E got \in {load(cacheFile, dirExists, now, in)} :
        /\ loadResult' = got.result
        /\ cacheFile' = got.file
        /\ dirExists' = got.dir
        /\ payload' = got.lines
        /\ fetches' = fetches + got.fetched
        /\ writes' = writes + got.wrote
        /\ loads' = loads + 1
        /\ persisted' = IF got.wrote = 0 THEN persisted
                        ELSE IF got.result.kind = "Ok"
                        THEN [some |-> TRUE, map |-> got.result.map]
                        ELSE IF got.file = cacheFile THEN persisted
                        ELSE NoMap
        /\ pc' = runStart(got.result).pc
        /\ coder' = runStart(got.result).coder
        /\ UNCHANGED <<now, prior, runs>>
        /\ UNCHANGED runVars

\* load returns the cache file's mapping
LoadFromCache ==
    /\ pc = "load"
    /\ load_from_cache(cacheFile, now).kind = "Ok"
    /\ LoadWith(DownloadInput(FALSE, FALSE, <<>>, TRUE, "ok"))

\* load goes to download (SpecLoad: every municipality source up to MaxLines)
LoadDownload ==
    /\ pc = "load"
    /\ load_from_cache(cacheFile, now).kind = "Err"
    /\ \E in \in DownloadInputs(Payloads(MaxLines), dirExists) : LoadWith(in)

\* load goes to download (Spec: the sources of RunPayloads)
RunDownload ==
    /\ pc = "load"
    /\ load_from_cache(cacheFile, now).kind = "Err"
    /\ \E in \in DownloadInputs(RunPayloads, dirExists) : LoadWith(in)

\* One pass of the loop of run, over the file at idx.
ProcessFile ==
    /\ pc = "files"
    /\ idx <= nFiles
    /\ \E file \in TargetFiles :
       \E resp \in (IF read(file).kind = "Some" THEN Responses ELSE {NoResponse}) :
       \E it \in {iterate(coder.municd, file, resp)} :
          /\ last' = it
          /\ fileReads' = fileReads + 1
          /\ requests' = [requests EXCEPT ![idx] = @ + it.asked]
          /\ IF it.outcome = "panic"
             THEN /\ pc' = "panic"
                  /\ UNCHANGED <<reports, idx>>
             ELSE /\ reports' = Append(reports, [file |-> idx, outcome |-> it.outcome])
                  /\ idx' = idx + 1
                  /\ pc' = pc
    /\ UNCHANGED <<now, cacheFile, dirExists, prior, payload, loadResult, fetches,
                   writes, loads, persisted, runs, coder, nFiles>>

\* The loop is over: run returns Ok(()) and main ends.
Finish ==
    /\ pc = "files"
    /\ idx > nFiles
    /\ pc' = "exit0"
    /\ UNCHANGED <<now, cacheFile, dirExists, prior, payload, loadResult, fetches,
                   writes, loads, persisted, runs, coder>>
    /\ UNCHANGED runVars

\* The program is run again after a run that refreshed the cache file and left
\* it readable.
Restart ==
    /\ pc = "files"
    /\ writes = 1
    /\ cacheFile.metaOk /\ cacheFile.mtimeOk /\ cacheFile.canOpen
    /\ runs < MaxRuns
    /\ \E gap \in RunGaps : now' = now + gap
    /\ runs' = runs + 1
    /\ prior' = cacheFile
    /\ payload' = <<>>
    /\ loadResult' = NotCalled
    /\ fetches' = 0
    /\ writes' = 0
    /\ loads' = 0
    /\ pc' = "load"
    /\ coder' = NoCoder
    /\ UNCHANGED <<cacheFile, dirExists, persisted>>
    /\ UNCHANGED runVars

\* ---------------------------------------------------------- SpecLoad
\* Runs of municd::load against one cache file, over every municipality
\* source of at most MaxLines lines.
InitLoad == InitWith(InitCacheFiles, {1})

NextLoad == LoadFromCache \/ LoadDownload \/ Restart

SpecLoad == InitLoad /\ [][NextLoad]_vars

\* -------------------------------------------------------------- Spec
\* One run of the program over its target files.
Init == InitWith(RunCacheFiles, 1..MaxFiles)

Next == LoadFromCache \/ RunDownload \/ ProcessFile \/ Finish

Spec == Init /\ [][Next]_vars

\* ====================================================== properties
\* load has returned in this run
AfterLoad == loadResult.kind # "none"

\* the run fetched the municipality source (download was called)
Refreshed == AfterLoad /\ fetches = 1

\* text is a JSON number that fits a 64-bit usize
IsUsizeLiteral(text) ==
    /\ text # <<>>
    /\ \A i \in 1..Len(text) : IsAsciiDigit(text[i])
    /\ Len(text) > 1 => text[1] # "0"
    /\ Len(text) <= 20
    /\ Len(text) = 20 => ~DigitsGreater(text, UsizeMaxDigits)

\* doc is valid JSON of the mapping schema
ValidDoc(doc) ==
    /\ doc.kind = "object"
    /\ \A i \in 1..Len(doc.members) : IsUsizeLiteral(doc.members[i].code)

\* the mapping a valid doc states: per key, its last member
StoredMap(doc) ==
    [k \in {doc.members[i].key : i \in 1..Len(doc.members)} |->
        LET i == CHOOSE j \in 1..Len(doc.members) :
                     /\ doc.members[j].key = k
                     /\ \A h \in (j + 1)..Len(doc.members) : doc.members[h].key # k
        IN  [code |-> DecimalValue(doc.members[i].code),
             pref |-> doc.members[i].pref,
             town |-> doc.members[i].town]]

\* the modification time of file is readable and less than 10 days before t
FreshAt(file, t) ==
    /\ file.exists /\ file.metaOk /\ file.mtimeOk
    /\ file.mtime <= t
    /\ t - file.mtime < 86400 * 10

\* C1 as claimed: on a cache file that exists, whose modification time is
\* readable and less than 10 days before now, and whose content is valid JSON
\* of the mapping schema, load returns exactly the mapping stored in the file
\* (a mapping persisted by a refresh is reproduced identically), fetches
\* nothing and does not write the cache file.
C1_FreshCacheIsReturned_AsClaimed ==
    (AfterLoad /\ FreshAt(prior, now) /\ ValidDoc(prior.doc))
        => /\ loadResult = Ok(StoredMap(prior.doc))
           /\ persisted.some => loadResult.map = persisted.map
           /\ fetches = 0
           /\ writes = 0
           /\ cacheFile = prior

\* C1 amended: the same, for a cache file that can also be opened for reading.
C1_FreshCacheIsReturned ==
    (AfterLoad /\ FreshAt(prior, now) /\ prior.canOpen /\ ValidDoc(prior.doc))
        => /\ loadResult = Ok(StoredMap(prior.doc))
           /\ persisted.some => loadResult.map = persisted.map
           /\ fetches = 0
           /\ writes = 0
           /\ cacheFile = prior

\* a second run reads back, within the threshold, the two-entry mapping the
\* first run persisted
C1_Witness ==
    /\ AfterLoad /\ FreshAt(prior, now) /\ prior.canOpen /\ ValidDoc(prior.doc)
    /\ runs = 2
    /\ persisted.some
    /\ Cardinality(DOMAIN persisted.map) = 2
    /\ loadResult = Ok(persisted.map)
    /\ fetches = 0

\* the conditions under which C2 sends load to the refresh path
MustRefresh(file, t) ==
    \/ ~file.exists
    \/ ~file.metaOk
    \/ ~file.mtimeOk
    \/ t - file.mtime >= 86400 * 10
    \/ file.mtime > t
    \/ ~file.canOpen
    \/ ~ValidDoc(file.doc)

\* C2: when the cache file is missing, its metadata or modification time is
\* unreadable, it is 10 days old or older, its mtime lies after now, it cannot
\* be opened or its content does not deserialize, load fetches the
\* municipality source exactly once; what it returns is the mapping built from
\* the fetched text or an error of the download, never the error of the cache
\* read and never the content of the cache file.
C2_RefreshWhenCacheUnusable ==
    (AfterLoad /\ MustRefresh(prior, now))
        => /\ fetches = 1
           /\ loads = 1
           /\ loadResult.kind = "Ok"
                => /\ loadResult.map = ParseLines(payload, EmptyMap).map
                   /\ cacheFile.doc = Serialize(loadResult.map)
           /\ loadResult.kind = "Err"
                => loadResult.err \in {"get", "text", "parse", "create_dir_all", "write"}

\* a cache file exactly 10 days old, holding a valid mapping, is not served:
\* the run fetches and returns another mapping
C2_Witness ==
    /\ AfterLoad
    /\ prior.exists /\ prior.canOpen /\ ValidDoc(prior.doc)
    /\ now - prior.mtime = 86400 * 10
    /\ fetches = 1
    /\ loadResult.kind = "Ok"
    /\ loadResult.map # StoredMap(prior.doc)

\* the cache file holds the complete serialization of the returned mapping
HoldsNewMapping ==
    /\ loadResult.kind = "Ok"
    /\ cacheFile.exists
    /\ cacheFile.doc = Serialize(loadResult.map)

\* C3 as claimed: a refresh either replaces the cache file with the JSON text
\* of the complete new mapping and returns that mapping, or fails with an
\* error and no mapping; a failure before the write step leaves the file
\* untouched; so after any load call the cache file is its prior content or
\* the complete new mapping, never a partial one.
C3_RefreshAllOrNothing_AsClaimed ==
    /\ Refreshed
         => /\ loadResult.kind = "Ok"
                 => /\ HoldsNewMapping
                    /\ loadResult.map = ParseLines(payload, EmptyMap).map
            /\ loadResult.kind = "Err" => loadResult.map = EmptyMap
            /\ (loadResult.kind = "Err" /\ writes = 0) => cacheFile = prior
    /\ AfterLoad => (cacheFile = prior \/ HoldsNewMapping)

\* C3 amended: the same, except that a failure of the write step itself
\* (std::fs::write returning Err) leaves the cache file either as it was or
\* truncated and cut off; after any load call the cache file is its prior
\* content, the complete new mapping, or - only after such a write failure -
\* a cut-off file.
C3_RefreshAllOrNothing ==
    /\ Refreshed
         => /\ loadResult.kind = "Ok"
                 => /\ HoldsNewMapping
                    /\ cacheFile.mtime = now
                    /\ writes = 1
                    /\ loadResult.map = ParseLines(payload, EmptyMap).map
            /\ loadResult.kind = "Err" => loadResult.map = EmptyMap
            /\ (loadResult.kind = "Err" /\ loadResult.err # "write")
                 => (writes = 0 /\ cacheFile = prior)
    /\ AfterLoad
         => \/ cacheFile = prior
            \/ HoldsNewMapping
            \/ /\ loadResult = Err("write")
               /\ writes = 1
               /\ cacheFile.exists
               /\ cacheFile.doc.kind = "partial"

\* a refresh whose write fails midway leaves a cut-off file where a valid
\* mapping was
C3_Witness ==
    /\ Refreshed
    /\ ValidDoc(prior.doc) /\ prior.exists
    /\ loadResult = Err("write")
    /\ cacheFile.doc.kind = "partial"
    /\ Len(payload) > 0

\* line matches RECORD_RE
Matches(line) == Captures(line).matched

\* text is decimal digits that parse as a 64-bit usize
FitsUsize(text) ==
    /\ text # <<>>
    /\ \A i \in 1..Len(text) : IsAsciiDigit(text[i])
    /\ \/ Len(StripZeros(text)) < 20
       \/ Len(StripZeros(text)) = 20 /\ ~DigitsGreater(StripZeros(text), UsizeMaxDigits)

\* the record a matching line states, from its three captured groups
RecordOf(line) ==
    [code |-> DecimalValue(StripZeros(Captures(line).g2)),
     pref |-> Captures(line).g1,
     town |-> Captures(line).g3]

\* key is the decimal text of code, zero-padded on the left to `width`
\* characters and no longer than that unless the code needs more
IsZeroPadded(key, code, width) ==
    /\ \A i \in 1..Len(key) : IsAsciiDigit(key[i])
    /\ DecimalValue(key) = code
    /\ Len(key) >= width
    /\ Len(key) > width => key[1] # "0"

\* the matching lines of the fetched text
MatchingLines == {i \in 1..Len(payload) : Matches(payload[i])}

\* the run fetched the text of the municipality source
FetchedText == Refreshed /\ loadResult.err \notin {"get", "text"}

\* C4 as claimed: every line that does not match the record pattern is
\* skipped without error and contributes no record, every line that matches
\* becomes one record (prefecture, code, municipality name from the three
\* captured groups) inserted under the zero-padded 6-digit code; a source
\* with no matching line yields an empty mapping, not an error.
C4_ParseRecords_AsClaimed ==
    FetchedText
        => /\ loadResult.err # "parse"
           /\ loadResult.kind = "Ok"
                => /\ \A i \in MatchingLines :
                        \E k \in DOMAIN loadResult.map :
                            /\ IsZeroPadded(k, RecordOf(payload[i]).code, 6)
                            /\ Len(k) = 6
                   /\ \A k \in DOMAIN loadResult.map :
                        \E i \in MatchingLines :
                            /\ IsZeroPadded(k, RecordOf(payload[i]).code, 6)
                            /\ loadResult.map[k] = RecordOf(payload[i])
                   /\ MatchingLines = {} => loadResult.map = EmptyMap

\* C4 amended: every line that does not match the record pattern is skipped
\* without error and contributes no record; when the code group of every
\* matching line parses as a usize, every matching line becomes one record
\* inserted under its code zero-padded to at least six digits (a later line
\* of the same code replacing an earlier one), and a source with no matching
\* line yields an empty mapping, not an error; a matching line whose code
\* group does not parse as a usize makes the refresh fail with an error.
C4_ParseRecords ==
    FetchedText
        => /\ loadResult.err = "parse"
                <=> \E i \in MatchingLines : ~FitsUsize(Captures(payload[i]).g2)
           /\ loadResult.kind = "Ok"
                => /\ \A i \in MatchingLines :
                        \E k \in DOMAIN loadResult.map :
                            IsZeroPadded(k, RecordOf(payload[i]).code, 6)
                   /\ \A k \in DOMAIN loadResult.map :
                        \E i \in MatchingLines :
                            /\ IsZeroPadded(k, RecordOf(payload[i]).code, 6)
                            /\ loadResult.map[k] = RecordOf(payload[i])
                            /\ \A j \in MatchingLines :
                                 RecordOf(payload[j]).code = RecordOf(payload[i]).code
                                    => j <= i
                   /\ MatchingLines = {} => loadResult.map = EmptyMap

\* the line GSI.MUNI_ARRAY["1"] = '1,Tokyo,13101,Chiyoda City' after a line
\* that does not match: one record, under "013101"
C4_Witness ==
    /\ FetchedText
    /\ loadResult.kind = "Ok"
    /\ Len(payload) = 2
    /\ ~Matches(payload[1])
    /\ payload[2] = LineTokyo
    /\ DOMAIN loadResult.map = {<<"0", "1", "3", "1", "0", "1">>}
    /\ loadResult.map[<<"0", "1", "3", "1", "0", "1">>]
         = [code |-> 13101, pref |-> <<"Tokyo">>, town |-> <<"Chiyoda City">>]

\* in map every key is its record's code zero-padded to six characters or,
\* from 1000000 on, the unpadded code; no code occurs under two keys
KeyedByCode(map) ==
    /\ \A k \in DOMAIN map :
         /\ IsZeroPadded(k, map[k].code, 6)
         /\ Len(k) = 6 <=> map[k].code < 1000000
    /\ \A j, k \in DOMAIN map : map[j].code = map[k].code => j = k

\* C5 as claimed: in every mapping load returns, deserialized from the cache
\* file or built by a refresh, and held by the ReverseGeocoder, each key is
\* the 6-character zero-padded decimal text of its record's code and no two
\* entries carry the same code.
C5_KeysAreCodes_AsClaimed ==
    loadResult.kind = "Ok"
        => /\ coder = [some |-> TRUE, municd |-> loadResult.map]
           /\ \A k \in DOMAIN loadResult.map :
                /\ IsZeroPadded(k, loadResult.map[k].code, 6)
                /\ Len(k) = 6
           /\ \A j, k \in DOMAIN loadResult.map :
                loadResult.map[j].code = loadResult.map[k].code => j = k

\* C5 amended: in every mapping load builds by a refresh, and in every mapping
\* it deserializes from a cache file that a refresh wrote, each key is the
\* decimal text of its record's code zero-padded to at least six characters
\* (exactly six for codes below 1000000, the unpadded code from there on) and
\* no two entries carry the same code; the ReverseGeocoder holds the mapping
\* as returned.  A cache file of another origin is returned as it is stored.
C5_KeysAreCodes ==
    loadResult.kind = "Ok"
        => /\ coder = [some |-> TRUE, municd |-> loadResult.map]
           /\ Refreshed => KeyedByCode(loadResult.map)
           /\ (fetches = 0 /\ persisted.some) => KeyedByCode(loadResult.map)
           /\ fetches = 0 => loadResult.map = StoredMap(prior.doc)

\* a mapping with a seven-digit code, read back from the cache file a refresh
\* wrote
C5_Witness ==
    /\ loadResult.kind = "Ok"
    /\ fetches = 0
    /\ persisted.some
    /\ \E k \in DOMAIN loadResult.map : Len(k) = 7
    /\ \E k \in DOMAIN loadResult.map : Len(k) = 6 /\ k[1] = "0"
    /\ coder.municd = loadResult.map

\* s with zeros put before it until it is six characters long
ZeroPadded6(s) ==
    LET n == IF Len(s) >= 6 THEN Len(s) ELSE 6
    IN  [i \in 1..n |-> IF i <= n - Len(s) THEN "0" ELSE s[i - (n - Len(s))]]

NotFullWidthSpace(c) == c # FullWidthSpace

\* the last pass asked the reverse geocoder and its response decoded
Decoded == last.asked = 1 /\ last.resp.sent /\ last.resp.shape = "ApiResult"

\* C6: for every decoded response, query pads the response's municipality
\* code with zeros on the left to six characters and looks it up in the
\* mapping; on a hit it returns prefecture name + municipality name without
\* any U+3000 + area name, with nothing between them; on a miss it returns
\* "????? " + area name; it returns no error.
C6_QueryJoinsCache ==
    Decoded
        => LET key == ZeroPadded6(last.resp.muniCd)
           IN  IF key \in DOMAIN coder.municd
               THEN last.answer =
                        Answer("Ok", coder.municd[key].pref
                                       \o SelectSeq(coder.municd[key].town, NotFullWidthSpace)
                                       \o last.resp.lv01Nm)
               ELSE last.answer = Answer("Ok", <<"????? ">> \o last.resp.lv01Nm)

\* code "13101" is found under "013101"; the town holds a U+3000, the address
\* does not
C6_Witness ==
    /\ Decoded
    /\ last.resp.muniCd = <<"1", "3", "1", "0", "1">>
    /\ <<"0", "1", "3", "1", "0", "1">> \in DOMAIN coder.municd
    /\ \E i \in 1..Len(coder.municd[<<"0", "1", "3", "1", "0", "1">>].town) :
           coder.municd[<<"0", "1", "3", "1", "0", "1">>].town[i] = FullWidthSpace
    /\ last.answer = Answer("Ok", <<"Tokyo", "Chiyoda", "Ward", "Marunouchi">>)

\* C7 as claimed: query returns an error exactly when the network call fails,
\* the response has a non-success status, or the body cannot be decoded into
\* the expected shape; in every other case it returns Ok with an address.
C7_QueryErrors_AsClaimed ==
    last.asked = 1
        => (last.answer.kind = "Err"
              <=> \/ ~last.resp.sent
                  \/ last.resp.status \notin 200..299
                  \/ last.resp.shape # "ApiResult")

\* C8 as claimed: once the cache load has succeeded, run processes every
\* target file in the given order and reports exactly one outcome per file; no
\* file's failure aborts the rest; at most one reverse-geocode request is sent
\* per file, none for a file without a readable location; run ends with Ok.
C8_EveryFileReported_AsClaimed ==
    /\ pc # "panic"
    /\ \A i \in 1..Len(reports) :
         /\ reports[i].file = i
         /\ reports[i].outcome \in {"success", "no-location", "read failure", "query failure"}
    /\ \A i \in 1..nFiles :
         /\ requests[i] <= 1
         /\ (i <= Len(reports) /\ reports[i].outcome \in {"no-location", "read failure"})
              => requests[i] = 0
    /\ pc = "exit0" => Len(reports) = nFiles

\* C9: the municipality cache is loaded exactly once and before any per-file
\* processing; the loaded mapping is never modified and the cache file never
\* rewritten for the rest of the run; if the load fails the run aborts with
\* failure and processes and reports no file.
C9_LoadOnceThenReadOnly ==
    /\ [](pc = "load" => (loads = 0 /\ fileReads = 0 /\ reports = <<>>
                            /\ \A i \in 1..nFiles : requests[i] = 0))
    /\ [](pc # "load" => loads = 1)
    /\ [](pc \in {"files", "exit0", "panic"}
            => (loadResult.kind = "Ok" /\ coder.some /\ coder.municd = loadResult.map))
    /\ []((AfterLoad /\ loadResult.kind = "Err")
            => (pc = "exit1" /\ fileReads = 0 /\ reports = <<>>
                  /\ \A i \in 1..nFiles : requests[i] = 0))
    /\ [][pc # "load"
            => (coder' = coder /\ cacheFile' = cacheFile /\ writes' = writes
                  /\ fetches' = fetches /\ loads' = loads)]_vars
    /\ [][pc = "exit1" => pc' = "exit1"]_vars

\* a run that refreshed the cache, then went through two files and ended
C9_Witness ==
    /\ pc = "exit0"
    /\ loads = 1
    /\ fetches = 1
    /\ nFiles = 2
    /\ fileReads = 2
    /\ requests[2] = 1
    /\ coder.municd = loadResult.map
    /\ cacheFile.doc = Serialize(coder.municd)

\* the four GPS fields of the last file were found
AllFieldsRead ==
    /\ last.outcome # "none"
    /\ last.file.open /\ last.file.exif
    /\ last.file.lat.present /\ last.file.latRef.present
    /\ last.file.lng.present /\ last.file.lngRef.present

IsTriplet(field) == field.type = "Rational" /\ Len(field.fractions) = 3

\* C10 as claimed: conv_degree fails with an invalid-format error, and neither
\* returns a coordinate nor aborts the program, for every latitude or
\* longitude field that is not a 3-element rational triplet: a non-rational
\* value, and a rational value of fewer or more than three elements.
C10_NonTripletIsError_AsClaimed ==
    AllFieldsRead
        => /\ ~IsTriplet(last.file.lat)
                => (last.read.convs[1].kind = "Err" /\ last.read.kind = "Err")
           /\ (IsTriplet(last.file.lat) /\ ~IsTriplet(last.file.lng))
                => (last.read.convs[2].kind = "Err" /\ last.read.kind = "Err")

\* ---- C11: the value conv_degree returns for a triplet
RECURSIVE Gcd(_, _)
Gcd(a, b) == IF b = 0 THEN a ELSE Gcd(b, a % b)

\* n / d in lowest terms (d > 0)
Quotient(n, d) == [n |-> n \div Gcd(n, d), d |-> d \div Gcd(n, d)]

QuotientSum(x, y) == Quotient(x.n * y.d + y.n * x.d, x.d * y.d)

\* deg + min/60 + sec/3600 as an exact quotient
Sexagesimal(triplet) ==
    QuotientSum(
        QuotientSum(Quotient(triplet[1].num, triplet[1].denom),
                    Quotient(triplet[2].num, triplet[2].denom * 60)),
        Quotient(triplet[3].num, triplet[3].denom * 3600))

\* a triplet of rationals that are numbers: no denominator is 0
IsValidTriplet(field) ==
    /\ IsTriplet(field)
    /\ \A i \in 1..3 : field.fractions[i].denom # 0

\* `got` is Ok with magnitude deg + min/60 + sec/3600 of the field and with
\* the sign bit set iff the text of the reference is S or W
IsSignedSexagesimal(got, field, reference) ==
    /\ got.kind = "Ok"
    /\ got.val.den # 0
    /\ Quotient(got.val.num, got.val.den) = Sexagesimal(field.fractions)
    /\ got.val.neg <=> reference.text \in {"S", "W"}

\* C11: for every valid rational triplet, whatever the reference field holds,
\* conv_degree returns Ok with a value whose magnitude is
\* deg + min/60 + sec/3600 and whose sign is negative iff the reference is S
\* or W; a reference that is none of N, S, E, W gives the positive value and
\* no error; (35, 0, 0) with N gives 35.0 and (139, 30, 0) with E gives 139.5.
\* The longitude is converted only when the latitude was.
C11_ConvertIsSignedSexagesimal ==
    AllFieldsRead =>
        /\ IsValidTriplet(last.file.lat)
              => IsSignedSexagesimal(last.read.convs[1], last.file.lat,
                                     last.file.latRef)
        /\ (Len(last.read.convs) = 2 /\ IsValidTriplet(last.file.lng))
              => IsSignedSexagesimal(last.read.convs[2], last.file.lng,
                                     last.file.lngRef)
        /\ last.file = FileGood
              => /\ last.read.kind = "Some"
                 /\ last.read.lat = Degrees(FALSE, 35 * 3600, 3600)
                 /\ last.read.lng.num * 2 = 279 * last.read.lng.den
                 /\ ~last.read.lng.neg

\* A file at 33 deg 51 min 54 sec with reference W and 151 deg 12.5 min
\* 35.5 sec with reference S has been read: both values are negative, and
\* neither is a whole number of degrees.
C11_Witness ==
    /\ AllFieldsRead
    /\ last.file.lat.fractions = Lat33 /\ last.file.latRef.text = "W"
    /\ last.file.lng.fractions = Lng151 /\ last.file.lngRef.text = "S"
    /\ last.read.kind = "Some"
    /\ last.read.lat.neg /\ last.read.lng.neg
    /\ last.read.lat.num % last.read.lat.den # 0
    /\ last.read.lng.num % last.read.lng.den # 0

====
